---- MODULE Spec2Model ----
(***************************************************************************)
(* Model of the price-alert evaluation engine (src/alert_service.py), the  *)
(* price table operations (src/database.py) and the portfolio ledger       *)
(* (src/portfolio_service.py, src/database.py).                            *)
(*                                                                         *)
(* Quantities, prices and thresholds are whole numbers of the smallest     *)
(* unit: on such values the float <-> Decimal(str(.)) conversions of the   *)
(* source are exact, so they are not modelled as lossy.                    *)
(***************************************************************************)
EXTENDS Integers, Sequences, FiniteSets, TLC

(* ------------------------------ bounds -------------------------------- *)
NumAssets == 2
MaxDate == 2
MaxAlerts == 2
MaxPriceRows == 2
MaxTx == 3
MaxQty == 2
DecimalDigits == 6
MaxOrphans == 1

AssetIds == 1..NumAssets
Dates == 1..MaxDate
PriceValues == {100, 105, 110}
AlertTypes == {"above", "below", "change_percent"}

\* create_alert inputs: a price threshold for above/below, a percentage
\* for change_percent
AlertInputs == {<<"above", 105>>, <<"below", 105>>, <<"change_percent", 5>>}

\* a price cell with no row
NoPrice == -1
\* the NULL of triggered_at, and the reading of datetime.now()
NULL == "NULL"
Now == "now"

VARIABLES
    price,          \* price table: [asset_id, price_date] -> close, NoPrice if no row
    alerts,         \* price_alert table: id -> row, for the ids that exist
    nextAlertId,    \* AUTOINCREMENT counter of price_alert
    callback,       \* AlertService._notification_callback is set
    ledger,         \* portfolio_transaction table: id -> row, for the ids that exist
    nextTxId,       \* AUTOINCREMENT counter of portfolio_transaction
    fired,          \* history: per alert, the number of returned lists it was in
                    \* (kept when fired.on, which FiredSpec sets)
    last,           \* what the caller of the latest call observed
    dividend,       \* dividend table: the set of its rows, one per (asset_id, payment_date)
    orphans,        \* per table, the number of its rows whose asset_id names no
                    \* row of the asset table
    hist            \* history: the latest operation, its arguments and the store
                    \* it started on (kept when hist.on)

vars == <<price, alerts, nextAlertId, callback, ledger, nextTxId, fired, last,
          dividend, orphans, hist>>

(* --------------------------- price table ------------------------------ *)

\* keys of the rows of the price table
Rows(p) == {k \in AssetIds \X Dates : p[k] # NoPrice}

\* dates on which the asset has an observation
ObsDates(p, a) == {d \in Dates : p[a, d] # NoPrice}

MaxOf(S) == CHOOSE x \in S : \A y \in S : y <= x

\* mutant of latest_price: an asset without a row reads as close 0
latest_price_or_zero(p, a) ==
    IF ObsDates(p, a) = {} THEN 0 ELSE p[a, MaxOf(ObsDates(p, a))]

\* mutant of latest_price: the row with MIN(price_date) is read
earliest_price(p, a) ==
    IF ObsDates(p, a) = {} THEN NoPrice
    ELSE p[a, CHOOSE d \in ObsDates(p, a) : \A e \in ObsDates(p, a) : d <= e]

\* check_alerts, first query: close of the row with MAX(price_date), or
\* NoPrice (the LEFT JOIN yields NULL) when the asset has no row
latest_price(p, a) ==
    IF ObsDates(p, a) = {} THEN NoPrice ELSE p[a, MaxOf(ObsDates(p, a))]

\* check_alerts, second query: close of the latest row with price_date <
\* MAX(price_date), or NoPrice when there is none
yesterday_price(p, a) ==
    LET earlier == {d \in ObsDates(p, a) : d < MaxOf(ObsDates(p, a))}
    IN  IF ObsDates(p, a) = {} \/ earlier = {} THEN NoPrice
        ELSE p[a, MaxOf(earlier)]

(* ------------------------- trigger predicate -------------------------- *)

Abs(x) == IF x < 0 THEN -x ELSE x

RECURSIVE Pow10(_)
Pow10(n) == IF n = 0 THEN 1 ELSE 10 * Pow10(n - 1)

\* n / d rounded to the nearest integer, ties to even (ROUND_HALF_EVEN, the
\* rounding of the decimal context), for n >= 0 and d > 0
RoundHalfEven(n, d) ==
    LET q == n \div d
        r == n % d
    IN  IF 2 * r > d THEN q + 1
        ELSE IF 2 * r < d THEN q
        ELSE q + (q % 2)

\* current_price / yesterday_price as Decimal computes it: a quotient of
\* limited precision, here kept to DecimalDigits fractional digits and held
\* as an integer number of 10^-DecimalDigits
decimal_quotient(cur, prev) == RoundHalfEven(cur * Pow10(DecimalDigits), prev)

\* mutant of change_percent: the change keeps its sign
change_percent_signed(cur, prev) ==
    (decimal_quotient(cur, prev) - Pow10(DecimalDigits)) * 100

\* abs(((current_price / yesterday_price) - 1) * 100), in units of
\* 10^-DecimalDigits
change_percent(cur, prev) ==
    Abs(decimal_quotient(cur, prev) - Pow10(DecimalDigits)) * 100

\* mutant of is_triggered: the price comparisons are strict
is_triggered_strict(alert, cur, prev) ==
    IF alert.alert_type = "above" /\ cur > alert.threshold_value THEN TRUE
    ELSE IF alert.alert_type = "below" /\ cur < alert.threshold_value THEN TRUE
    ELSE IF alert.alert_type = "change_percent" THEN
        /\ prev # NoPrice
        /\ prev > 0
        /\ change_percent(cur, prev) >= alert.threshold_value * Pow10(DecimalDigits)
    ELSE FALSE

\* the if/elif chain of check_alerts that sets is_triggered, for an alert
\* row whose asset has latest close cur and previous close prev (NoPrice if
\* there is no earlier row)
is_triggered(alert, cur, prev) ==
    IF alert.alert_type = "above" /\ cur >= alert.threshold_value THEN TRUE
    ELSE IF alert.alert_type = "below" /\ cur <= alert.threshold_value THEN TRUE
    ELSE IF alert.alert_type = "change_percent" THEN
        /\ prev # NoPrice
        /\ prev > 0
        /\ change_percent(cur, prev) >= alert.threshold_value * Pow10(DecimalDigits)
    ELSE FALSE

(* --------------------------- alert table ------------------------------ *)

\* the row INSERT INTO price_alert creates: the column defaults of the
\* schema give active = 1, triggered = 0, triggered_at NULL,
\* notification_sent = 0
new_alert(asset_id, alert_type, threshold_value) ==
    [asset_id |-> asset_id, alert_type |-> alert_type,
     threshold_value |-> threshold_value,
     active |-> TRUE, triggered |-> FALSE, triggered_at |-> NULL,
     notification_sent |-> FALSE]

\* mutant of mark_triggered: notification_sent is left as it was
mark_triggered_unsent(tbl, id) ==
    IF id \in DOMAIN tbl
    THEN [tbl EXCEPT ![id] = [@ EXCEPT !.triggered = TRUE, !.triggered_at = Now]]
    ELSE tbl

\* mutant of mark_triggered: the update also deactivates the alert
mark_triggered_deactivating(tbl, id) ==
    IF id \in DOMAIN tbl
    THEN [tbl EXCEPT ![id] = [@ EXCEPT !.triggered = TRUE,
                                       !.triggered_at = Now,
                                       !.notification_sent = TRUE,
                                       !.active = FALSE]]
    ELSE tbl

\* UPDATE price_alert SET triggered = 1, triggered_at = ?, notification_sent = 1
\* WHERE id = ?
mark_triggered(tbl, id) ==
    IF id \in DOMAIN tbl
    THEN [tbl EXCEPT ![id] = [@ EXCEPT !.triggered = TRUE,
                                       !.triggered_at = Now,
                                       !.notification_sent = TRUE]]
    ELSE tbl

\* mutant of deactivate: the update also clears the trigger flag
deactivate_reset(tbl, id) ==
    [k \in DOMAIN tbl |->
        IF k = id THEN [tbl[k] EXCEPT !.active = FALSE, !.triggered = FALSE] ELSE tbl[k]]

\* mutant of deactivate: the update flips the flag
deactivate_toggle(tbl, id) ==
    [k \in DOMAIN tbl |->
        IF k = id THEN [tbl[k] EXCEPT !.active = ~tbl[k].active] ELSE tbl[k]]

\* UPDATE price_alert SET active = 0 WHERE id = ?
deactivate(tbl, id) ==
    [k \in DOMAIN tbl |-> IF k = id THEN [tbl[k] EXCEPT !.active = FALSE] ELSE tbl[k]]

\* mutant of get_active_alerts: WHERE active = 1
get_enabled_alerts(tbl) == {id \in DOMAIN tbl : tbl[id].active}

\* mutant of get_active_alerts: WHERE triggered = 0
get_untriggered_alerts(tbl) == {id \in DOMAIN tbl : ~tbl[id].triggered}

\* ids of the rows get_active_alerts selects: WHERE active = 1 AND triggered = 0
get_active_alerts(tbl) ==
    {id \in DOMAIN tbl : tbl[id].active /\ ~tbl[id].triggered}

\* the orders in which the selected rows can be returned. ORDER BY created_at
\* DESC sorts on a timestamp of one-second resolution and rows that share it
\* come in an order SQL leaves open; the model keeps no timestamps and allows
\* every order.
Orderings(S) ==
    {s \in [1..Cardinality(S) -> S] : \A i, j \in 1..Cardinality(S) : i # j => s[i] # s[j]}

(* ----------------------------- check_alerts --------------------------- *)

\* where a pass can raise: nowhere, in the SELECT of get_active_alerts, in
\* the price query, the previous-price query or the UPDATE transaction of
\* the idx-th selected alert, or inside the notification callback
Faults(n) ==
    {[at |-> "none", idx |-> 0], [at |-> "select", idx |-> 0],
     [at |-> "callback", idx |-> 0]}
    \cup [at : {"price", "yesterday", "update"}, idx : 1..n]

\* one entry of the list check_alerts builds: TriggeredAlert(alert, ...,
\* current_price, ...)
TriggeredAlert(id, cur) == [id |-> id, current_price |-> cur]

\* mutant of pass_loop: the loop is left after the first alert that triggers
RECURSIVE pass_loop_first(_, _, _, _, _, _)
pass_loop_first(snap, p, ord, i, fault, acc) ==
    IF i > Len(ord) THEN acc
    ELSE
        LET id == ord[i]
            alert == snap[id]
            cur == latest_price(p, alert.asset_id)
            prev == yesterday_price(p, alert.asset_id)
            skip == [acc EXCEPT !.evaluated = @ + 1]
            raise == [acc EXCEPT !.failed = TRUE]
        IN  IF fault = [at |-> "price", idx |-> i] THEN raise
            ELSE IF cur = NoPrice THEN pass_loop_first(snap, p, ord, i + 1, fault, skip)
            ELSE IF alert.alert_type = "change_percent"
                    /\ fault = [at |-> "yesterday", idx |-> i] THEN raise
            ELSE IF is_triggered(alert, cur, prev) THEN
                IF fault = [at |-> "update", idx |-> i] THEN raise
                ELSE [acc EXCEPT !.tbl = mark_triggered(@, id),
                                 !.triggered = Append(@, TriggeredAlert(id, cur)),
                                 !.evaluated = Len(ord)]
            ELSE pass_loop_first(snap, p, ord, i + 1, fault, skip)

\* the for loop of check_alerts from the i-th selected alert on. snap is the
\* list get_active_alerts returned, acc the state of the pass so far: the
\* table, the triggered list, the number of alerts whose iteration ended,
\* and whether an exception left the loop.
RECURSIVE pass_loop(_, _, _, _, _, _)
pass_loop(snap, p, ord, i, fault, acc) ==
    IF i > Len(ord) THEN acc
    ELSE
        LET id == ord[i]
            alert == snap[id]
            cur == latest_price(p, alert.asset_id)
            prev == yesterday_price(p, alert.asset_id)
            asksYesterday ==
                /\ alert.alert_type = "change_percent"
            skip == [acc EXCEPT !.evaluated = @ + 1]
            raise == [acc EXCEPT !.failed = TRUE]
        IN  IF fault = [at |-> "price", idx |-> i] THEN raise
            ELSE IF cur = NoPrice THEN pass_loop(snap, p, ord, i + 1, fault, skip)
            ELSE IF asksYesterday /\ fault = [at |-> "yesterday", idx |-> i] THEN raise
            ELSE IF is_triggered(alert, cur, prev) THEN
                IF fault = [at |-> "update", idx |-> i] THEN raise
                ELSE pass_loop(snap, p, ord, i + 1, fault,
                               [acc EXCEPT !.tbl = mark_triggered(@, id),
                                           !.triggered = Append(@, TriggeredAlert(id, cur)),
                                           !.evaluated = @ + 1])
            ELSE pass_loop(snap, p, ord, i + 1, fault, skip)

\* mutant of notify: the callback is called for each triggered alert
notify_each(triggered, evaluated, cb) ==
    IF cb
    THEN [i \in 1..Len(triggered) |-> [arg |-> <<triggered[i]>>, evaluated |-> evaluated]]
    ELSE <<>>

\* "if triggered and self._notification_callback:
\*      self._notification_callback(triggered)": the calls made to the callback
notify(triggered, evaluated, cb) ==
    IF triggered # <<>> /\ cb
    THEN <<[arg |-> triggered, evaluated |-> evaluated]>>
    ELSE <<>>

\* mutant of check_alerts: the entry is appended for every selected alert
\* whose asset has a price, triggered or not
check_alerts_all_priced(tbl, p, cb, ord, fault) ==
    IF fault.at = "select"
    THEN [tbl |-> tbl, result |-> "DatabaseError", returned |-> <<>>, notified |-> <<>>]
    ELSE
        LET r == pass_loop(tbl, p, ord, 1, fault,
                           [tbl |-> tbl, triggered |-> <<>>, evaluated |-> 0,
                            failed |-> FALSE])
            priced == SelectSeq(ord, LAMBDA id : latest_price(p, tbl[id].asset_id) # NoPrice)
            all == [i \in 1..Len(priced) |->
                       TriggeredAlert(priced[i], latest_price(p, tbl[priced[i]].asset_id))]
            calls == notify(all, r.evaluated, cb)
        IN  IF r.failed
            THEN [tbl |-> r.tbl, result |-> "DatabaseError", returned |-> <<>>,
                  notified |-> <<>>]
            ELSE IF calls # <<>> /\ fault.at = "callback"
            THEN [tbl |-> r.tbl, result |-> "DatabaseError", returned |-> <<>>,
                  notified |-> calls]
            ELSE [tbl |-> r.tbl, result |-> "ok", returned |-> all, notified |-> calls]

\* AlertService.check_alerts: the table after the call, its result (the
\* returned list, or the DatabaseError of the except clause) and the calls
\* made to the notification callback
check_alerts(tbl, p, cb, ord, fault) ==
    IF fault.at = "select"
    THEN [tbl |-> tbl, result |-> "DatabaseError", returned |-> <<>>, notified |-> <<>>]
    ELSE
        LET r == pass_loop(tbl, p, ord, 1, fault,
                           [tbl |-> tbl, triggered |-> <<>>, evaluated |-> 0,
                            failed |-> FALSE])
            calls == notify(r.triggered, r.evaluated, cb)
        IN  IF r.failed
            THEN [tbl |-> r.tbl, result |-> "DatabaseError", returned |-> <<>>,
                  notified |-> <<>>]
            ELSE IF calls # <<>> /\ fault.at = "callback"
            THEN [tbl |-> r.tbl, result |-> "DatabaseError", returned |-> <<>>,
                  notified |-> calls]
            ELSE [tbl |-> r.tbl, result |-> "ok", returned |-> r.triggered,
                  notified |-> calls]

(* ------------------------------- ledger ------------------------------- *)

Currencies == {"EUR", "USD"}

\* the CASE of the position query: + quantity for a buy, - quantity for a sell
signed_quantity(t) ==
    IF t.transaction_type = "buy" THEN t.quantity ELSE -t.quantity

RECURSIVE SumSigned(_, _)
SumSigned(L, ids) ==
    IF ids = {} THEN 0
    ELSE LET id == CHOOSE x \in ids : TRUE
         IN  signed_quantity(L[id]) + SumSigned(L, ids \ {id})

\* the rows of one group of GROUP BY a.id, ..., pt.currency
GroupIds(L, a, c) ==
    {id \in DOMAIN L : L[id].asset_id = a /\ L[id].currency = c}

\* the second CASE of the position query: + quantity * price for a buy,
\* - quantity * price for a sell
signed_cost(t) ==
    IF t.transaction_type = "buy" THEN t.quantity * t.price ELSE -(t.quantity * t.price)

RECURSIVE SumCost(_, _)
SumCost(L, ids) ==
    IF ids = {} THEN 0
    ELSE LET id == CHOOSE x \in ids : TRUE
         IN  signed_cost(L[id]) + SumCost(L, ids \ {id})

\* the number of binary digits of a whole number n >= 0
RECURSIVE BitLen(_)
BitLen(n) == IF n = 0 THEN 0 ELSE 1 + BitLen(n \div 2)

RECURSIVE Pow2(_)
Pow2(n) == IF n = 0 THEN 1 ELSE 2 * Pow2(n - 1)

\* 2^e modulo q
RECURSIVE PowMod2(_, _)
PowMod2(e, q) == IF e = 0 THEN 1 % q ELSE (2 * PowMod2(e - 1, q)) % q

\* the significand of a REAL of SQLite and of a float of Python: an IEEE 754
\* double
DoubleBits == 53

\* A double that need not be a whole number is held as whole + frac *
\* 2^(exp - DoubleBits - 1): a whole number and a number of half units in the
\* last place of a double of exp binary digits.
Double(whole, frac, exp) == [whole |-> whole, frac |-> frac, exp |-> exp]

\* the avg_price column: SUM(signed quantity * price) / NULLIF(SUM(signed
\* quantity), 0), a division of two doubles that hold the whole numbers num
\* and den. The quotient is held as the pair it is the nearest double to.
float_div(num, den) == [num |-> num, den |-> den]

\* quantity * average_buy_price for the quotient avg = float_div(s, q) and
\* quantity = q > 0: the double nearest to q * m, m being the double nearest
\* to s / q. With t = |s| * 2^e the scaled dividend whose quotient by q has
\* DoubleBits digits, m is (t - r) / q or (t - r) / q + 1, r the remainder,
\* and q * m differs from t by d; the product is t + d rounded to DoubleBits
\* digits, ties to even.
float_mul_back(avg) ==
    LET s == Abs(avg.num)
        q == avg.den
        bs == BitLen(s)
        bq == BitLen(q)
        big == s * Pow2(bq) >= q * Pow2(bs)
        e == IF big THEN DoubleBits - 1 - bs + bq ELSE DoubleBits - bs + bq
        r == (s * PowMod2(e, q)) % q
        d == IF 2 * r > q THEN q - r ELSE -r
        \* half a unit in the last place of t, and of the doubles below t when
        \* t is a power of two
        v == Pow2(bs + e - DoubleBits) \div 2
        h == IF d >= 0
             THEN IF 2 * d > 2 * v THEN 2 ELSE 0
             ELSE IF s = Pow2(bs - 1)
                  THEN IF 2 * (-d) <= v THEN 0
                       ELSE IF 2 * (-d) < 3 * v THEN -1
                       ELSE -2
                  ELSE IF 2 * (-d) > 2 * v THEN -2 ELSE 0
    IN  IF s = 0 THEN Double(0, 0, 0)
        ELSE IF avg.num > 0 THEN Double(s, h, bs)
        ELSE Double(-s, -h, bs)

\* value - x for a whole number value and a double x: exact when the
\* difference has at most DoubleBits digits, otherwise the fraction is
\* rounded away
float_sub(value, x) ==
    LET d == value - x.whole
        bd == BitLen(Abs(d))
        \* the binary place of the fraction of x, and of the last place of the
        \* difference
        g == x.exp - DoubleBits - (IF Abs(x.frac) = 2 THEN 0 ELSE 1)
        towards_zero == (d > 0 /\ x.frac > 0) \/ (d < 0 /\ x.frac < 0)
        lg == bd - DoubleBits
                 - (IF Abs(d) = Pow2(bd - 1) /\ towards_zero THEN 1 ELSE 0)
    IN  IF x.frac = 0 THEN Double(d, 0, 0)
        ELSE IF d = 0 \/ g >= lg THEN Double(d, -x.frac, x.exp)
        ELSE Double(d, 0, 0)

\* mutant of get_portfolio_positions: the HAVING clause is missing
get_all_groups(L) ==
    {[asset_id |-> g[1], currency |-> g[2],
      quantity |-> SumSigned(L, GroupIds(L, g[1], g[2])),
      average_buy_price |-> float_div(SumCost(L, GroupIds(L, g[1], g[2])),
                                      SumSigned(L, GroupIds(L, g[1], g[2])))] :
        g \in {h \in AssetIds \X Currencies : GroupIds(L, h[1], h[2]) # {}}}

\* PriceRepository.get_portfolio_positions: one row per (asset, currency)
\* group of the ledger whose signed quantity sum is > 0 (HAVING
\* total_quantity > 0), with its average_buy_price; the JOIN keeps the
\* assets of the asset table
get_portfolio_positions(L) ==
    {[asset_id |-> a, currency |-> c, quantity |-> SumSigned(L, GroupIds(L, a, c)),
      average_buy_price |-> float_div(SumCost(L, GroupIds(L, a, c)),
                                      SumSigned(L, GroupIds(L, a, c)))] :
        <<a, c>> \in {g \in AssetIds \X Currencies :
                        /\ GroupIds(L, g[1], g[2]) # {}
                        /\ SumSigned(L, GroupIds(L, g[1], g[2])) > 0}}

\* the currency codes in the order SQLite compares TEXT values
CurrencyOrder == <<"EUR", "USD">>

\* the keys of the groups in the order the query returns them: ORDER BY
\* a.symbol over the rows the GROUP BY produced, which SQLite orders by the
\* grouping terms, so the groups of one asset come in currency order. Asset
\* ids are numbered in the order of their symbols.
GroupKeys ==
    [i \in 1..(NumAssets * Len(CurrencyOrder)) |->
        <<((i - 1) \div Len(CurrencyOrder)) + 1,
          CurrencyOrder[((i - 1) % Len(CurrencyOrder)) + 1]>>]

\* the list PriceRepository.get_portfolio_positions returns
position_list(L) ==
    LET S == get_portfolio_positions(L)
        has(g) == \E pos \in S : pos.asset_id = g[1] /\ pos.currency = g[2]
        keys == SelectSeq(GroupKeys, has)
    IN  [i \in 1..Len(keys) |->
            CHOOSE pos \in S : pos.asset_id = keys[i][1] /\ pos.currency = keys[i][2]]

\* PortfolioService.get_asset_quantity: the quantity of the first position
\* of the list whose asset_id matches, 0 if there is none (the set of the
\* values the call can return)
get_asset_quantity(L, asset_id) ==
    LET list == position_list(L)
        mine == {i \in 1..Len(list) : list[i].asset_id = asset_id}
    IN  IF mine = {} THEN {0}
        ELSE {list[CHOOSE i \in mine : \A j \in mine : i <= j].quantity}

\* AppConfig.default_currency
default_currency == "EUR"

\* PortfolioPosition.calculate_current_value, on whole numbers
calculate_current_value(pos, current_price) == pos.quantity * current_price

\* PortfolioPosition.calculate_total_cost: quantity * average_buy_price
calculate_total_cost(pos) == float_mul_back(pos.average_buy_price)

\* PortfolioPosition.calculate_profit_loss
calculate_profit_loss(pos, current_price) ==
    float_sub(calculate_current_value(pos, current_price), calculate_total_cost(pos))

\* PriceRepository.get_portfolio_summary: per position of the list, the
\* close of the asset's row with the latest price_date (0.0 when it has no
\* row), current_value = quantity * current_price, total_cost and
\* profit_loss
get_portfolio_summary(L, p) ==
    LET list == position_list(L)
    IN  [i \in 1..Len(list) |->
            LET current_price ==
                    IF ObsDates(p, list[i].asset_id) = {} THEN 0
                    ELSE p[list[i].asset_id, MaxOf(ObsDates(p, list[i].asset_id))]
            IN  [asset_id |-> list[i].asset_id, currency |-> list[i].currency,
                 quantity |-> list[i].quantity,
                 avg_buy_price |-> list[i].average_buy_price,
                 current_price |-> current_price,
                 current_value |-> calculate_current_value(list[i], current_price),
                 total_cost |-> calculate_total_cost(list[i]),
                 profit_loss |-> calculate_profit_loss(list[i], current_price)]]

\* totals_by_currency[c] after the loop over the first n summaries
RECURSIVE totals_by_currency(_, _, _)
totals_by_currency(summaries, c, n) ==
    IF n = 0 THEN 0
    ELSE totals_by_currency(summaries, c, n - 1)
         + (IF summaries[n].currency = c THEN summaries[n].current_value ELSE 0)

\* mutant of get_total_portfolio_value: the totals of all currencies are added
get_total_all_currencies(L, p) ==
    LET summaries == get_portfolio_summary(L, p)
    IN  IF summaries = <<>> THEN [total |-> 0, currency |-> default_currency]
        ELSE [total |-> totals_by_currency(summaries, "EUR", Len(summaries))
                        + totals_by_currency(summaries, "USD", Len(summaries)),
              currency |-> summaries[1].currency]

\* PortfolioService.get_total_portfolio_value: the total of the first key of
\* the dict, which is the currency of the first summary
get_total_portfolio_value(L, p) ==
    LET summaries == get_portfolio_summary(L, p)
    IN  IF summaries = <<>> THEN [total |-> 0, currency |-> default_currency]
        ELSE LET first_currency == summaries[1].currency
             IN  [total |-> totals_by_currency(summaries, first_currency, Len(summaries)),
                  currency |-> first_currency]

\* PortfolioService.validate_transaction, given the value get_asset_quantity
\* returned: the headline of the ValidationError raised, "" if none
validate_transaction(transaction_type, quantity, current_quantity) ==
    IF transaction_type = "sell"
    THEN IF current_quantity = 0 THEN "Keine Position vorhanden"
         ELSE IF quantity > current_quantity THEN "Verkaufsmenge zu gross"
         ELSE ""
    ELSE ""

\* the checks of add_transaction that precede validate_transaction: the
\* headline of the ValidationError raised, "" if none
validate_input(inp) ==
    IF inp.asset_id <= 0 THEN "Ungueltiges Asset"
    ELSE IF inp.quantity <= 0 THEN "Menge muss positiv sein"
    ELSE IF inp.price <= 0 THEN "Preis muss positiv sein"
    ELSE ""

\* the arguments of add_transaction the model draws from; asset id 0 is
\* invalid and asset id NumAssets + 1 names no row of the asset table
TxInputs ==
    [asset_id : 0..(NumAssets + 1), transaction_type : {"buy", "sell"},
     quantity : 0..MaxQty, price : {1}, currency : Currencies,
     transaction_date : {1}]

(* -------------------------- input validation -------------------------- *)

\* Decimal(clean) on the strings the model passes: a finite number, a NaN,
\* or InvalidOperation for text that is no number
parse_decimal(s) ==
    CASE s = "1" -> [kind |-> "finite", value |-> 1]
      [] s = "2" -> [kind |-> "finite", value |-> 2]
      [] s = "100" -> [kind |-> "finite", value |-> 100]
      [] s = "0" -> [kind |-> "finite", value |-> 0]
      [] s = "-1" -> [kind |-> "finite", value |-> -1]
      [] s = "NaN" -> [kind |-> "nan", value |-> 0]
      [] OTHER -> [kind |-> "invalid", value |-> 0]

\* what a validator does: returns value, or raises exception (a
\* ValidationError with the headline message, or the InvalidOperation of a
\* comparison with a NaN)
Valid(value) == [exception |-> "", message |-> "", value |-> value]
Raise(exception, message) == [exception |-> exception, message |-> message, value |-> 0]

\* InputValidator.validate_quantity
validate_quantity(quantity_str) ==
    IF quantity_str = "" THEN Raise("ValidationError", "Menge fehlt")
    ELSE LET quantity == parse_decimal(quantity_str)
         IN  IF quantity.kind = "invalid"
             THEN Raise("ValidationError", "Ungueltige Menge")
             ELSE IF quantity.kind = "nan" THEN Raise("InvalidOperation", "")
             ELSE IF quantity.value <= 0
             THEN Raise("ValidationError", "Menge muss positiv sein")
             ELSE Valid(quantity.value)

\* InputValidator.validate_price
validate_price(price_str) ==
    IF price_str = "" THEN Raise("ValidationError", "Preis fehlt")
    ELSE LET parsed == parse_decimal(price_str)
         IN  IF parsed.kind = "invalid"
             THEN Raise("ValidationError", "Ungueltiger Preis")
             ELSE IF parsed.kind = "nan" THEN Raise("InvalidOperation", "")
             ELSE IF parsed.value <= 0
             THEN Raise("ValidationError", "Preis muss positiv sein")
             ELSE Valid(parsed.value)

\* DividendService._parse_non_negative_amount: an empty string reads as 0
parse_non_negative_amount(value) ==
    IF value = "" THEN Valid(0)
    ELSE LET parsed == parse_decimal(value)
         IN  IF parsed.kind = "invalid"
             THEN Raise("ValidationError", "Ungueltige Steuer")
             ELSE IF parsed.kind = "nan" THEN Raise("InvalidOperation", "")
             ELSE IF parsed.value < 0
             THEN Raise("ValidationError", "Ungueltige Steuer")
             ELSE Valid(parsed.value)

\* str.isalpha on the currency strings the model passes
isalpha(s) == s \notin {"", "123"}

\* InputValidator.validate_currency
validate_currency(currency) ==
    IF currency = "" THEN Raise("ValidationError", "Waehrung fehlt")
    ELSE IF Len(currency) # 3 THEN Raise("ValidationError", "Ungueltige Waehrung")
    ELSE IF ~isalpha(currency) THEN Raise("ValidationError", "Ungueltige Waehrung")
    ELSE Valid(currency)

\* InputValidator.validate_date: date.today() is MaxDate, and the dates
\* before 1 are those before 1970
validate_date(date_input) ==
    IF date_input > MaxDate THEN Raise("ValidationError", "Datum in der Zukunft")
    ELSE IF date_input < 1
    THEN Raise("ValidationError", "Datum zu weit in der Vergangenheit")
    ELSE Valid(date_input)

\* the first of a sequence of validator results that raised, Valid(0) if none
FirstRaised(checks) ==
    IF \E i \in 1..Len(checks) : checks[i].exception # ""
    THEN checks[CHOOSE i \in 1..Len(checks) :
                    /\ checks[i].exception # ""
                    /\ \A j \in 1..(i - 1) : checks[j].exception = ""]
    ELSE Valid(0)

\* "currency.strip() or self._config.default_currency"
currency_or_default(currency) == IF currency = "" THEN default_currency ELSE currency

(* -------------------------- transaction scope ------------------------- *)

\* what the body of a "with self.transaction():" block did: the tables as it
\* left them and whether it raised
Body(store, raised) == [store |-> store, raised |-> raised]

\* mutant of transaction: the changes of a body that raised stay
transaction_without_rollback(begin, body) ==
    IF body.raised
    THEN [store |-> body.store, result |-> "DatabaseError",
          message |-> "Transaktion fehlgeschlagen"]
    ELSE [store |-> body.store, result |-> "ok", message |-> ""]

\* PriceRepository.transaction: BEGIN, the body, then COMMIT; on any
\* exception ROLLBACK and DatabaseError("Transaktion fehlgeschlagen")
transaction(begin, body) ==
    IF body.raised
    THEN [store |-> begin, result |-> "DatabaseError",
          message |-> "Transaktion fehlgeschlagen"]
    ELSE [store |-> body.store, result |-> "ok", message |-> ""]

(* ------------------------------ actions ------------------------------- *)

\* how often alert id is in a returned list
Occurrences(returned, id) ==
    Cardinality({i \in 1..Len(returned) : returned[i].id = id})

\* the history variable after a step, n being its new count
Track(f, n) == IF f.on THEN [f EXCEPT !.n = n] ELSE f

\* the outcome of a call: the operation (by name for check_alerts and the
\* ledger operations, "call" for the other operations), "ok" or the class of
\* the exception raised with its headline, the list returned (<<>> when the
\* call returns no list; for create_alert the new id), the calls made to the notification callback and,
\* for check_alerts, the alert table as it was before the call
Outcome(op, result, message) ==
    [op |-> op, result |-> result, message |-> message, returned |-> <<>>,
     notified |-> <<>>, before |-> <<>>]

\* the price table the application is started on: the table is created and
\* filled outside this repository, so a stored close of 0 cannot be excluded
SeedPrices ==
    {[k \in AssetIds \X Dates |-> NoPrice],
     [k \in AssetIds \X Dates |-> IF k = <<1, 1>> THEN 0 ELSE NoPrice]}

\* the tables of the database file
Store ==
    [price |-> price, alerts |-> alerts, ledger |-> ledger, dividend |-> dividend,
     orphans |-> orphans]

\* the history variable after an operation op called with arg
Note(op, arg) ==
    IF hist.on THEN [on |-> TRUE, op |-> op, arg |-> arg, before |-> Store] ELSE hist

\* the tables cleanup_orphaned_data deletes from, in its order
OrphanTables == <<"portfolio_transaction", "price", "dividend", "price_alert">>

NoOrphans == [t \in {OrphanTables[i] : i \in 1..Len(OrphanTables)} |-> 0]

Init ==
    /\ price \in SeedPrices
    /\ alerts = <<>>
    /\ nextAlertId = 1
    /\ callback = FALSE
    /\ ledger = <<>>
    /\ nextTxId = 1
    /\ fired = [on |-> FALSE, n |-> <<>>]
    /\ last = Outcome("call", "ok", "")
    /\ dividend = {}
    /\ orphans = NoOrphans
    /\ hist = [on |-> FALSE]

\* AlertService.set_notification_callback
SetNotificationCallback ==
    /\ callback' = TRUE
    /\ last' = Outcome("call", "ok", "")
    /\ hist' = Note("set_notification_callback", <<>>)
    /\ UNCHANGED <<price, alerts, nextAlertId, ledger, nextTxId, fired, dividend, orphans>>

\* AlertService.create_alert
CreateAlert ==
    \E asset_id \in AssetIds, inp \in AlertInputs :
        /\ nextAlertId <= MaxAlerts
        /\ alerts' = alerts @@ (nextAlertId :> new_alert(asset_id, inp[1], inp[2]))
        /\ nextAlertId' = nextAlertId + 1
        /\ fired' = Track(fired, fired.n @@ (nextAlertId :> 0))
        /\ last' = [Outcome("create_alert", "ok", "") EXCEPT !.returned = <<nextAlertId>>]
        /\ hist' = Note("create_alert", <<asset_id, inp[1], inp[2]>>)
        /\ UNCHANGED <<price, callback, ledger, nextTxId, dividend, orphans>>

\* AlertService.delete_alert: DELETE FROM price_alert WHERE id = ?
DeleteAlert ==
    \E id \in 1..MaxAlerts :
        /\ alerts' = [k \in DOMAIN alerts \ {id} |-> alerts[k]]
        /\ fired' = Track(fired, [k \in DOMAIN fired.n \ {id} |-> fired.n[k]])
        /\ last' = Outcome("call", "ok", "")
        /\ hist' = Note("delete_alert", id)
        /\ UNCHANGED <<price, nextAlertId, callback, ledger, nextTxId, dividend, orphans>>

\* AlertService.deactivate_alert: UPDATE price_alert SET active = 0 WHERE id = ?
DeactivateAlert ==
    \E id \in 1..MaxAlerts :
        /\ alerts' = deactivate(alerts, id)
        /\ fired' = fired
        /\ last' = Outcome("call", "ok", "")
        /\ hist' = Note("deactivate_alert", id)
        /\ UNCHANGED <<price, nextAlertId, callback, ledger, nextTxId, dividend, orphans>>

\* mutant of upsert: ON CONFLICT DO NOTHING
insert_or_ignore(p, asset_id, price_date, close) ==
    IF p[asset_id, price_date] # NoPrice THEN p
    ELSE [p EXCEPT ![asset_id, price_date] = close]

\* INSERT INTO price ... ON CONFLICT(asset_id, price_date) DO UPDATE SET
\* close = excluded.close
upsert(p, asset_id, price_date, close) ==
    [p EXCEPT ![asset_id, price_date] = close]

\* PriceService.save_price -> PriceRepository.save_price: INSERT ... ON
\* CONFLICT(asset_id, price_date) DO UPDATE SET close = excluded.close
SavePrice ==
    \E asset_id \in AssetIds, price_date \in Dates, close \in PriceValues :
        /\ \/ price[asset_id, price_date] # NoPrice
           \/ Cardinality(Rows(price)) < MaxPriceRows
        /\ price' = upsert(price, asset_id, price_date, close)
        /\ last' = Outcome("call", "ok", "")
        /\ hist' = Note("save_price", <<asset_id, price_date, close>>)
        /\ UNCHANGED <<alerts, nextAlertId, callback, ledger, nextTxId, fired, dividend, orphans>>

\* PriceRepository.delete_price: inside the transaction scope, raises when
\* the symbol names no asset (asset id NumAssets + 1 stands for such a
\* symbol) and when the DELETE removed no row
DeletePrice ==
    \E asset_id \in 1..(NumAssets + 1), price_date \in Dates :
        LET body ==
                IF asset_id \notin AssetIds THEN Body(Store, TRUE)
                ELSE Body([Store EXCEPT !.price[asset_id, price_date] = NoPrice],
                          price[asset_id, price_date] = NoPrice)
            r == transaction(Store, body)
        IN  /\ price' = r.store.price
            /\ last' = Outcome("call", r.result, r.message)
            /\ hist' = Note("delete_price", <<asset_id, price_date>>)
        /\ UNCHANGED <<alerts, nextAlertId, callback, ledger, nextTxId, fired, dividend, orphans>>

\* PriceRepository.clear_all_prices: DELETE FROM price
ClearAllPrices ==
    /\ price' = [k \in AssetIds \X Dates |-> NoPrice]
    /\ last' = Outcome("call", "ok", "")
    /\ hist' = Note("clear_all_prices", <<>>)
    /\ UNCHANGED <<alerts, nextAlertId, callback, ledger, nextTxId, fired, dividend, orphans>>

\* AlertService.check_alerts, one whole pass
CheckAlerts ==
    \E ord \in Orderings(get_active_alerts(alerts)) :
        \E fault \in Faults(Len(ord)) :
            LET r == check_alerts(alerts, price, callback, ord, fault)
            IN  /\ alerts' = r.tbl
                /\ fired' = Track(fired, [k \in DOMAIN fired.n |->
                                IF fired.n[k] + Occurrences(r.returned, k) > 2 THEN 2
                                ELSE fired.n[k] + Occurrences(r.returned, k)])
                /\ last' = [op |-> "check_alerts", result |-> r.result,
                            message |-> IF r.result = "ok" THEN ""
                                        ELSE "Fehler beim Pruefen der Alarme",
                            returned |-> r.returned, notified |-> r.notified,
                            before |-> alerts]
                /\ hist' = Note("check_alerts", <<ord, fault>>)
                /\ UNCHANGED <<price, nextAlertId, callback, ledger, nextTxId, dividend, orphans>>

\* PortfolioService.add_transaction called with inp
AddTransactionWith(inp) ==
    \E current_quantity \in get_asset_quantity(ledger, inp.asset_id) :
        LET early == validate_input(inp)
            business == validate_transaction(inp.transaction_type, inp.quantity,
                                             current_quantity)
        IN  /\ IF early # ""
               THEN /\ last' = Outcome("add_transaction", "ValidationError", early)
                    /\ UNCHANGED <<ledger, nextTxId>>
               ELSE IF business # ""
               THEN /\ last' = Outcome("add_transaction", "ValidationError", business)
                    /\ UNCHANGED <<ledger, nextTxId>>
               ELSE IF inp.asset_id \notin AssetIds
               THEN \* FOREIGN KEY (asset_id) REFERENCES asset(id)
                    /\ last' = Outcome("add_transaction", "DatabaseError",
                                       "Fehler beim Speichern der Transaktion")
                    /\ UNCHANGED <<ledger, nextTxId>>
               ELSE /\ nextTxId <= MaxTx
                    /\ ledger' = ledger @@ (nextTxId :> inp)
                    /\ nextTxId' = nextTxId + 1
                    /\ last' = Outcome("add_transaction", "ok", "")
            /\ hist' = Note("add_transaction", inp)
            /\ UNCHANGED <<price, alerts, nextAlertId, callback, fired, dividend, orphans>>

AddTransaction == \E inp \in TxInputs : AddTransactionWith(inp)

\* the arguments of add_transaction with several quantities, prices and dates
PricedTxInputs ==
    [asset_id : {1}, transaction_type : {"buy", "sell"}, quantity : {5, 10},
     price : {100, 200}, currency : {"EUR"}, transaction_date : Dates]

AddPricedTransaction == \E inp \in PricedTxInputs : AddTransactionWith(inp)

\* PortfolioService.delete_transaction -> PriceRepository.delete_transaction:
\* the error raised inside the transaction scope when no row was deleted
\* leaves the scope as "Transaktion fehlgeschlagen"
DeleteTransaction ==
    \E id \in 1..MaxTx :
        LET body == Body([Store EXCEPT !.ledger = [k \in DOMAIN ledger \ {id} |-> ledger[k]]],
                         id \notin DOMAIN ledger)
            r == transaction(Store, body)
        IN  /\ ledger' = r.store.ledger
            /\ last' = Outcome("delete_transaction", r.result, r.message)
            /\ hist' = Note("delete_transaction", id)
        /\ UNCHANGED <<price, alerts, nextAlertId, callback, nextTxId, fired, dividend, orphans>>

\* PriceRepository.clear_portfolio: DELETE FROM portfolio_transaction
ClearPortfolio ==
    /\ ledger' = <<>>
    /\ last' = Outcome("clear_portfolio", "ok", "")
    /\ hist' = Note("clear_portfolio", <<>>)
    /\ UNCHANGED <<price, alerts, nextAlertId, callback, nextTxId, fired, dividend, orphans>>

\* mutant of GetPortfolioPositions: the read deletes the transactions of the
\* groups it leaves out
GetPortfolioPositionsPruning ==
    /\ last' = [Outcome("get_portfolio_positions", "ok", "") EXCEPT
                    !.returned = position_list(ledger)]
    /\ ledger' = [id \in {k \in DOMAIN ledger :
                              \E pos \in get_portfolio_positions(ledger) :
                                  /\ pos.asset_id = ledger[k].asset_id
                                  /\ pos.currency = ledger[k].currency} |-> ledger[id]]
    /\ hist' = Note("get_portfolio_positions", <<>>)
    /\ UNCHANGED <<price, alerts, nextAlertId, callback, nextTxId, fired,
                   dividend, orphans>>

\* PortfolioService.get_portfolio_positions: a read
GetPortfolioPositions ==
    /\ last' = [Outcome("get_portfolio_positions", "ok", "") EXCEPT
                    !.returned = position_list(ledger)]
    /\ hist' = Note("get_portfolio_positions", <<>>)
    /\ UNCHANGED <<price, alerts, nextAlertId, callback, ledger, nextTxId, fired,
                   dividend, orphans>>

\* PortfolioService.get_total_portfolio_value: a read
GetTotalPortfolioValue ==
    /\ last' = [Outcome("get_total_portfolio_value", "ok", "") EXCEPT
                    !.returned = <<get_total_portfolio_value(ledger, price)>>]
    /\ hist' = Note("get_total_portfolio_value", <<>>)
    /\ UNCHANGED <<price, alerts, nextAlertId, callback, ledger, nextTxId, fired,
                   dividend, orphans>>

\* PortfolioService.get_portfolio_summary -> PriceRepository.get_portfolio_summary:
\* a read
GetPortfolioSummary ==
    /\ last' = [Outcome("get_portfolio_summary", "ok", "") EXCEPT
                    !.returned = get_portfolio_summary(ledger, price)]
    /\ hist' = Note("get_portfolio_summary", <<>>)
    /\ UNCHANGED <<price, alerts, nextAlertId, callback, ledger, nextTxId, fired,
                   dividend, orphans>>

\* PriceRepository.check_foreign_keys from table i on: one message per row
\* of SELECT ... LEFT JOIN asset a ON <table>.asset_id = a.id WHERE a.id IS
\* NULL, for the four tables in turn (a message is modelled by its table)
RECURSIVE violations_from(_, _)
violations_from(store, i) ==
    IF i > Len(OrphanTables) THEN <<>>
    ELSE [k \in 1..store.orphans[OrphanTables[i]] |-> OrphanTables[i]]
         \o violations_from(store, i + 1)

\* PriceRepository.check_foreign_keys
check_foreign_keys(store) == violations_from(store, 1)

\* PriceRepository.check_foreign_keys: a read
CheckForeignKeys ==
    /\ last' = [Outcome("check_foreign_keys", "ok", "") EXCEPT
                    !.returned = check_foreign_keys(Store)]
    /\ hist' = Note("check_foreign_keys", <<>>)
    /\ UNCHANGED <<price, alerts, nextAlertId, callback, ledger, nextTxId, fired,
                   dividend, orphans>>

\* mutant of cleanup_body: the DELETE on the price_alert table is missing
cleanup_body_without_alerts(store, fault) ==
    LET done == IF fault = 0 THEN Len(OrphanTables) - 1 ELSE fault - 1
    IN  Body([store EXCEPT !.orphans =
                [t \in DOMAIN store.orphans |->
                    IF \E i \in 1..done : OrphanTables[i] = t /\ i < Len(OrphanTables)
                    THEN 0
                    ELSE store.orphans[t]]],
             fault # 0)

\* mutant of cleanup_body: the DELETE on the price table is missing
cleanup_body_without_price(store, fault) ==
    LET done == IF fault = 0 THEN Len(OrphanTables) ELSE fault - 1
    IN  Body([store EXCEPT !.orphans =
                [t \in DOMAIN store.orphans |->
                    IF \E i \in 1..done : OrphanTables[i] = t /\ t # "price" THEN 0
                    ELSE store.orphans[t]]],
             fault # 0)

\* the body of cleanup_orphaned_data: DELETE FROM <table> WHERE asset_id NOT
\* IN (SELECT id FROM asset) for the four tables in turn; with fault = i > 0
\* the i-th DELETE raises, the earlier ones having been executed
cleanup_body(store, fault) ==
    LET done == IF fault = 0 THEN Len(OrphanTables) ELSE fault - 1
    IN  Body([store EXCEPT !.orphans =
                [t \in DOMAIN store.orphans |->
                    IF \E i \in 1..done : OrphanTables[i] = t THEN 0
                    ELSE store.orphans[t]]],
             fault # 0)

\* PriceRepository.cleanup_orphaned_data; returns the row counts of the
\* four DELETEs
CleanupOrphanedData ==
    \E fault \in 0..Len(OrphanTables) :
        LET r == transaction(Store, cleanup_body(Store, fault))
        IN  /\ orphans' = r.store.orphans
            /\ last' = [Outcome("cleanup_orphaned_data", r.result, r.message) EXCEPT
                            !.returned = IF r.result = "ok"
                                         THEN [i \in 1..Len(OrphanTables) |->
                                                  orphans[OrphanTables[i]]]
                                         ELSE <<>>]
            /\ hist' = Note("cleanup_orphaned_data", fault)
            /\ UNCHANGED <<price, alerts, nextAlertId, callback, ledger, nextTxId,
                           fired, dividend>>

\* the arguments the callers of the services are modelled to pass: valid
\* ones and, per argument, the kinds of invalid ones
RawTxInputs ==
    [asset_id : {0, 1}, transaction_type : {"buy"},
     quantity_str : {"1", "0", "NaN", ""}, price_str : {"1", "abc"},
     currency : {"EUR", "", "EU"}, transaction_date : {1, MaxDate + 1}]

RawPriceInputs ==
    [asset_id : {0, 1}, price_date : {0, 1},
     close_str : {"100", "0", "NaN"}, currency : {"EUR", ""}]

RawAlertInputs ==
    [asset_id : {0, 1}, alert_type : {"above", "change_percent"},
     threshold_value : {parse_decimal("100"), parse_decimal("0"),
                        parse_decimal("-1"), parse_decimal("NaN")},
     currency : {"EUR", "123"}]

RawDividendInputs ==
    [asset_id : {0, 1, NumAssets + 1}, payment_date : {1, MaxDate + 1},
     amount_str : {"2", "abc", "NaN"}, currency : {"EUR", "EU"},
     tax_withheld_str : {"", "100", "-1", "NaN"}]

\* a call that raised before it wrote
Rejected(op, exception, message, raw) ==
    /\ last' = Outcome(op, exception, message)
    /\ hist' = Note(op, raw)
    /\ UNCHANGED <<price, alerts, nextAlertId, callback, ledger, nextTxId, fired,
                   dividend, orphans>>

\* PortfolioService.add_transaction called with the strings of raw
AddTransactionRawWith(raw) ==
    LET checks == <<IF raw.asset_id <= 0
                    THEN Raise("ValidationError", "Ungueltiges Asset") ELSE Valid(0),
                    validate_quantity(raw.quantity_str),
                    validate_price(raw.price_str),
                    validate_currency(currency_or_default(raw.currency)),
                    validate_date(raw.transaction_date)>>
        failed == FirstRaised(checks)
    IN  IF failed.exception = "ValidationError"
        THEN Rejected("add_transaction", "ValidationError", failed.message, raw)
        ELSE IF failed.exception # ""
        THEN \* except Exception
             Rejected("add_transaction", "ValidationError",
                      "Fehler beim Erstellen der Transaktion", raw)
        ELSE AddTransactionWith(
                 [asset_id |-> raw.asset_id, transaction_type |-> raw.transaction_type,
                  quantity |-> checks[2].value, price |-> checks[3].value,
                  currency |-> checks[4].value, transaction_date |-> checks[5].value])

AddTransactionRaw == \E raw \in RawTxInputs : AddTransactionRawWith(raw)

\* PriceService.save_price called with the strings of raw
SavePriceRawWith(raw) ==
    LET checks == <<validate_date(raw.price_date),
                    validate_price(raw.close_str),
                    validate_currency(currency_or_default(raw.currency)),
                    IF raw.asset_id <= 0
                    THEN Raise("ValidationError", "Ungueltiges Asset") ELSE Valid(0)>>
        failed == FirstRaised(checks)
    IN  IF failed.exception = "ValidationError"
        THEN Rejected("save_price", "ValidationError", failed.message, raw)
        ELSE IF failed.exception # ""
        THEN \* except Exception
             Rejected("save_price", "ValidationError",
                      "Fehler beim Validieren der Kursdaten", raw)
        ELSE /\ \/ price[raw.asset_id, checks[1].value] # NoPrice
                \/ Cardinality(Rows(price)) < MaxPriceRows
             /\ price' = upsert(price, raw.asset_id, checks[1].value, checks[2].value)
             /\ last' = Outcome("save_price", "ok", "")
             /\ hist' = Note("save_price", raw)
             /\ UNCHANGED <<alerts, nextAlertId, callback, ledger, nextTxId, fired,
                            dividend, orphans>>

SavePriceRaw == \E raw \in RawPriceInputs : SavePriceRawWith(raw)

\* AlertService.create_alert called with the arguments of raw, the threshold
\* being a Decimal
CreateAlertRawWith(raw) ==
    LET checks == <<IF raw.asset_id <= 0
                    THEN Raise("ValidationError", "Ungueltiges Asset") ELSE Valid(0),
                    validate_currency(raw.currency),
                    IF raw.threshold_value.kind = "nan" THEN Raise("InvalidOperation", "")
                    ELSE IF raw.threshold_value.value <= 0
                    THEN Raise("ValidationError",
                               IF raw.alert_type = "change_percent"
                               THEN "Ungueltiger Prozentwert" ELSE "Ungueltiger Schwellwert")
                    ELSE Valid(raw.threshold_value.value)>>
        failed == FirstRaised(checks)
    IN  IF failed.exception = "ValidationError"
        THEN Rejected("create_alert", "ValidationError", failed.message, raw)
        ELSE IF failed.exception # ""
        THEN \* except Exception
             Rejected("create_alert", "DatabaseError", "Fehler beim Erstellen des Alarms",
                      raw)
        ELSE /\ nextAlertId <= MaxAlerts
             /\ alerts' = alerts @@ (nextAlertId :>
                              new_alert(raw.asset_id, raw.alert_type, checks[3].value))
             /\ nextAlertId' = nextAlertId + 1
             /\ fired' = Track(fired, fired.n @@ (nextAlertId :> 0))
             /\ last' = [Outcome("create_alert", "ok", "") EXCEPT
                            !.returned = <<nextAlertId>>]
             /\ hist' = Note("create_alert", raw)
             /\ UNCHANGED <<price, callback, ledger, nextTxId, dividend, orphans>>

CreateAlertRaw == \E raw \in RawAlertInputs : CreateAlertRawWith(raw)

\* INSERT INTO dividend ... ON CONFLICT(asset_id, payment_date) DO UPDATE
upsert_dividend(tbl, row) ==
    {r \in tbl : r.asset_id # row.asset_id \/ r.payment_date # row.payment_date}
    \cup {row}

\* DividendService.add_dividend called with the strings of raw
AddDividendWith(raw) ==
    LET checks == <<validate_date(raw.payment_date),
                    validate_price(raw.amount_str),
                    parse_non_negative_amount(raw.tax_withheld_str),
                    validate_currency(raw.currency),
                    IF raw.asset_id <= 0
                    THEN Raise("ValidationError", "Ungueltiges Asset") ELSE Valid(0)>>
        failed == FirstRaised(checks)
        row == [asset_id |-> raw.asset_id, payment_date |-> checks[1].value,
                amount |-> checks[2].value, currency |-> checks[4].value,
                tax_withheld |-> checks[3].value]
        \* FOREIGN KEY (asset_id) REFERENCES asset(id)
        r == transaction(Store, Body([Store EXCEPT !.dividend = upsert_dividend(@, row)],
                                     raw.asset_id \notin AssetIds))
    IN  IF failed.exception = "ValidationError"
        THEN Rejected("add_dividend", "ValidationError", failed.message, raw)
        ELSE IF failed.exception # ""
        THEN \* except Exception
             Rejected("add_dividend", "DatabaseError",
                      "Fehler beim Speichern der Dividende", raw)
        ELSE IF checks[3].value > checks[2].value
        THEN Rejected("add_dividend", "ValidationError", "Steuer zu hoch", raw)
        ELSE /\ dividend' = r.store.dividend
             /\ last' = Outcome("add_dividend", r.result,
                                IF r.result = "ok" THEN ""
                                ELSE "Fehler beim Speichern der Dividende")
             /\ hist' = Note("add_dividend", raw)
             /\ UNCHANGED <<price, alerts, nextAlertId, callback, ledger, nextTxId,
                            fired, orphans>>

AddDividend == \E raw \in RawDividendInputs : AddDividendWith(raw)

Next ==
    \/ SetNotificationCallback
    \/ CreateAlert
    \/ DeleteAlert
    \/ DeactivateAlert
    \/ SavePrice
    \/ DeletePrice
    \/ ClearAllPrices
    \/ CheckAlerts

Spec == Init /\ [][Next]_vars

\* the ledger operations alone
LedgerNext ==
    \/ AddTransaction
    \/ DeleteTransaction
    \/ ClearPortfolio
    \/ GetPortfolioPositions

LedgerSpec == Init /\ [][LedgerNext]_vars

\* Spec with the history of the returned lists kept
FiredInit ==
    /\ price \in SeedPrices
    /\ alerts = <<>>
    /\ nextAlertId = 1
    /\ callback = FALSE
    /\ ledger = <<>>
    /\ nextTxId = 1
    /\ fired = [on |-> TRUE, n |-> <<>>]
    /\ last = Outcome("call", "ok", "")
    /\ dividend = {}
    /\ orphans = NoOrphans
    /\ hist = [on |-> FALSE]

FiredSpec == FiredInit /\ [][Next]_vars

\* add_transaction alone: a ledger without deletions
InsertSpec == Init /\ [][AddTransaction]_vars

\* the price operations alone, with the history of the latest operation kept
PriceInit ==
    /\ price \in SeedPrices
    /\ alerts = <<>>
    /\ nextAlertId = 1
    /\ callback = FALSE
    /\ ledger = <<>>
    /\ nextTxId = 1
    /\ fired = [on |-> FALSE, n |-> <<>>]
    /\ last = Outcome("call", "ok", "")
    /\ dividend = {}
    /\ orphans = NoOrphans
    /\ hist = [on |-> TRUE, op |-> "connect", arg |-> <<>>, before |-> <<>>]

PriceNext ==
    \/ SavePrice
    \/ DeletePrice
    \/ ClearAllPrices

PriceSpec == PriceInit /\ [][PriceNext]_vars

\* the database files the application can be started on: the tables may
\* hold rows written while foreign keys were not enforced, whose asset_id
\* names no asset, and the ledger may hold a transaction already
SeedOrphans ==
    {NoOrphans,
     [t \in DOMAIN NoOrphans |-> MaxOrphans],
     [t \in DOMAIN NoOrphans |-> IF t = "price" THEN MaxOrphans ELSE 0]}

SeedLedgers ==
    {<<>>,
     <<[asset_id |-> 1, transaction_type |-> "buy", quantity |-> 1, price |-> 1,
        currency |-> "EUR", transaction_date |-> 1]>>}

\* the operations that delete or deactivate, with the alert operations that
\* bring alerts into every state, with the history of the latest operation kept
StoreInit ==
    /\ price \in SeedPrices
    /\ alerts = <<>>
    /\ nextAlertId = 1
    /\ callback = FALSE
    /\ ledger \in SeedLedgers
    /\ nextTxId = Len(ledger) + 1
    /\ fired = [on |-> FALSE, n |-> <<>>]
    /\ last = Outcome("call", "ok", "")
    /\ dividend = {}
    /\ orphans \in SeedOrphans
    /\ hist = [on |-> TRUE, op |-> "connect", arg |-> <<>>, before |-> <<>>]

StoreNext ==
    \/ CleanupOrphanedData
    \/ DeletePrice
    \/ DeleteTransaction
    \/ CreateAlert
    \/ DeleteAlert
    \/ DeactivateAlert
    \/ CheckAlerts

StoreSpec == StoreInit /\ [][StoreNext]_vars

\* the service calls with valid and invalid arguments
BoundaryNext ==
    \/ AddTransactionRaw
    \/ SavePriceRaw
    \/ CreateAlertRaw
    \/ AddDividend

BoundarySpec == Init /\ [][BoundaryNext]_vars

\* price tables with observations for the valuation of the ledger
ValuationPrices ==
    SeedPrices \cup
    {[k \in AssetIds \X Dates |->
        IF k = <<1, 1>> THEN 100 ELSE IF k = <<2, 1>> THEN 110 ELSE NoPrice]}

ValuationInit ==
    /\ price \in ValuationPrices
    /\ alerts = <<>>
    /\ nextAlertId = 1
    /\ callback = FALSE
    /\ ledger = <<>>
    /\ nextTxId = 1
    /\ fired = [on |-> FALSE, n |-> <<>>]
    /\ last = Outcome("call", "ok", "")
    /\ dividend = {}
    /\ orphans = NoOrphans
    /\ hist = [on |-> FALSE]

ValuationNext ==
    \/ AddTransaction
    \/ ClearPortfolio
    \/ GetTotalPortfolioValue

ValuationSpec == ValuationInit /\ [][ValuationNext]_vars

\* the alerts and the ledger of a database in use: an ABOVE alert on the
\* first asset, a BELOW alert on the second, a holding of each asset
SeedAlerts ==
    (1 :> new_alert(1, "above", 105)) @@ (2 :> new_alert(2, "below", 105))

SeedHoldings ==
    <<[asset_id |-> 1, transaction_type |-> "buy", quantity |-> 1, price |-> 1,
       currency |-> "EUR", transaction_date |-> 1],
      [asset_id |-> 2, transaction_type |-> "buy", quantity |-> 2, price |-> 1,
       currency |-> "EUR", transaction_date |-> 1]>>

\* the price operations with the two readers of the latest price, with the
\* history of the latest operation kept
LatestInit ==
    /\ price \in SeedPrices
    /\ alerts = SeedAlerts
    /\ nextAlertId = 3
    /\ callback = FALSE
    /\ ledger = SeedHoldings
    /\ nextTxId = Len(ledger) + 1
    /\ fired = [on |-> FALSE, n |-> <<>>]
    /\ last = Outcome("call", "ok", "")
    /\ dividend = {}
    /\ orphans = NoOrphans
    /\ hist = [on |-> TRUE, op |-> "connect", arg |-> <<>>, before |-> <<>>]

LatestNext ==
    \/ SavePrice
    \/ DeletePrice
    \/ CheckAlerts
    \/ GetPortfolioSummary

LatestSpec == LatestInit /\ [][LatestNext]_vars

\* the dividend table of a database in use: one payment on the first asset
SeedDividends ==
    {[asset_id |-> 1, payment_date |-> 1, amount |-> 2, currency |-> "EUR",
      tax_withheld |-> 0]}

\* the alert operations and save_price on a database that holds a ledger and
\* a dividend, with the notification callback the main window registers
FrameInit ==
    /\ price \in SeedPrices
    /\ alerts = <<>>
    /\ nextAlertId = 1
    /\ callback = TRUE
    /\ ledger = SeedHoldings
    /\ nextTxId = Len(ledger) + 1
    /\ fired = [on |-> FALSE, n |-> <<>>]
    /\ last = Outcome("call", "ok", "")
    /\ dividend = SeedDividends
    /\ orphans = NoOrphans
    /\ hist = [on |-> FALSE]

FrameNext ==
    \/ CreateAlert
    \/ DeactivateAlert
    \/ SavePrice
    \/ CheckAlerts

FrameSpec == FrameInit /\ [][FrameNext]_vars

\* the integrity operations of the repository with the deletions, on the
\* database files of StoreInit
ForeignKeyNext ==
    \/ CleanupOrphanedData
    \/ CheckForeignKeys
    \/ DeletePrice
    \/ DeleteTransaction
    \/ SavePrice

ForeignKeySpec == StoreInit /\ [][ForeignKeyNext]_vars

\* price tables for the valuation of a priced ledger: no observation, or an
\* earlier and a latest one
CostPrices ==
    {[k \in AssetIds \X Dates |-> NoPrice],
     [k \in AssetIds \X Dates |->
        IF k = <<1, 1>> THEN 100 ELSE IF k = <<1, MaxDate>> THEN 150 ELSE NoPrice]}

\* a ledger built by add_transaction alone, with its two readers
CostInit ==
    /\ price \in CostPrices
    /\ alerts = <<>>
    /\ nextAlertId = 1
    /\ callback = FALSE
    /\ ledger = <<>>
    /\ nextTxId = 1
    /\ fired = [on |-> FALSE, n |-> <<>>]
    /\ last = Outcome("call", "ok", "")
    /\ dividend = {}
    /\ orphans = NoOrphans
    /\ hist = [on |-> FALSE]

CostNext ==
    \/ AddPricedTransaction
    \/ GetPortfolioPositions
    \/ GetPortfolioSummary

CostSpec == CostInit /\ [][CostNext]_vars

(* ------------------------------- claims ------------------------------- *)

\* ids of the entries of a triggered list
ListIds(list) == {list[i].id : i \in 1..Len(list)}

\* ids handed to the notification callback in the latest call
NotifiedIds == UNION {ListIds(last.notified[i].arg) : i \in 1..Len(last.notified)}

\* the latest call was a check_alerts pass / one that returned
Pass == last.op = "check_alerts"
Completed == Pass /\ last.result = "ok"

\* the alert was active and untriggered when the latest pass started
Eligible(id) ==
    /\ id \in DOMAIN last.before
    /\ last.before[id].active
    /\ ~last.before[id].triggered

\* the observations of an asset, read off the price table
HasObs(a) == \E d \in Dates : price[a, d] # NoPrice
LatestDate(a) ==
    CHOOSE d \in Dates :
        /\ price[a, d] # NoPrice
        /\ \A e \in Dates : price[a, e] # NoPrice => e <= d
LatestClose(a) == price[a, LatestDate(a)]
HasPrev(a) == HasObs(a) /\ \E d \in Dates : d < LatestDate(a) /\ price[a, d] # NoPrice
PrevDate(a) ==
    CHOOSE d \in Dates :
        /\ d < LatestDate(a) /\ price[a, d] # NoPrice
        /\ \A e \in Dates : (e < LatestDate(a) /\ price[a, e] # NoPrice) => e <= d
PrevClose(a) == price[a, PrevDate(a)]

\* the trigger condition of an alert row as the specification states it, on
\* the price table as it is
Satisfied(row) ==
    /\ HasObs(row.asset_id)
    /\ CASE row.alert_type = "above" -> LatestClose(row.asset_id) >= row.threshold_value
         [] row.alert_type = "below" -> LatestClose(row.asset_id) <= row.threshold_value
         [] OTHER ->
              /\ HasPrev(row.asset_id)
              /\ PrevClose(row.asset_id) > 0
              /\ Abs(LatestClose(row.asset_id) - PrevClose(row.asset_id)) * 100
                    >= row.threshold_value * PrevClose(row.asset_id)

\* C1: once a stored alert has triggered = true it keeps it in every later
\* state in which it still exists, whatever operation is performed
C1_AlertMonotonic ==
    [][\A id \in DOMAIN alerts :
          (alerts[id].triggered /\ id \in DOMAIN alerts') => alerts'[id].triggered]_vars

\* an alert triggered by an earlier pass whose condition no longer holds went
\* through a later completed pass and is still triggered
C1_Witness ==
    /\ Completed
    /\ \E id \in DOMAIN alerts :
          /\ last.before[id].triggered
          /\ alerts[id].triggered
          /\ alerts[id].active
          /\ ~Satisfied(alerts[id])

\* C2: a check_alerts pass leaves every alert that was deactivated or
\* already triggered when it started as it was, and keeps it out of the
\* returned list and out of the callback's argument
C2_OnlyEligibleTouched ==
    Pass =>
        \A id \in DOMAIN last.before :
            ~Eligible(id) =>
                /\ id \in DOMAIN alerts
                /\ alerts[id] = last.before[id]
                /\ id \notin ListIds(last.returned)
                /\ id \notin NotifiedIds

\* a completed pass ran over a deactivated, untriggered alert whose
\* condition holds and over an already triggered alert whose condition holds
C2_Witness ==
    /\ Completed
    /\ \E id \in DOMAIN alerts :
          ~alerts[id].active /\ ~alerts[id].triggered /\ Satisfied(alerts[id])
    /\ \E id \in DOMAIN alerts :
          last.before[id].triggered /\ alerts[id].active /\ Satisfied(alerts[id])

\* C3: an alert id is in the returned list of at most one pass (and at most
\* once in it)
C3_FiresOnce == \A id \in DOMAIN fired.n : fired.n[id] <= 1

\* an alert that was returned by an earlier pass went through a later
\* completed pass with its condition still holding, and was not returned again
C3_Witness ==
    /\ Completed
    /\ \E id \in DOMAIN alerts :
          /\ fired.on /\ fired.n[id] = 1
          /\ last.before[id].triggered
          /\ alerts[id].active
          /\ Satisfied(alerts[id])

\* C4: in one pass the callback is called at most once, only with a
\* non-empty list, only after every selected alert has been evaluated, and
\* its argument holds exactly the alerts the pass triggered, each once
C4_SingleNotification ==
    Pass =>
        /\ Len(last.notified) <= 1
        /\ \A i \in 1..Len(last.notified) :
              LET call == last.notified[i]
              IN  /\ call.arg # <<>>
                  /\ call.evaluated = Cardinality({id \in DOMAIN last.before : Eligible(id)})
                  /\ ListIds(call.arg) =
                        {id \in DOMAIN last.before :
                            ~last.before[id].triggered /\ alerts[id].triggered}
                  /\ Len(call.arg) = Cardinality(ListIds(call.arg))

\* a completed pass triggered two alerts and called the callback once with both
C4_Witness ==
    /\ Completed
    /\ Len(last.notified) = 1
    /\ Len(last.notified[1].arg) = 2
    /\ last.returned = last.notified[1].arg

\* C5: for every stored alert triggered, notification_sent and "triggered_at
\* is set" agree; the alert create_alert has just stored is active with all
\* three unset
C5_TriggerFieldsTogether ==
    /\ \A id \in DOMAIN alerts :
          /\ alerts[id].triggered <=> alerts[id].notification_sent
          /\ alerts[id].triggered <=> (alerts[id].triggered_at # NULL)
    /\ (last.op = "create_alert" /\ last.result = "ok") =>
          LET id == last.returned[1]
          IN  /\ id \in DOMAIN alerts
              /\ alerts[id].active
              /\ ~alerts[id].triggered
              /\ alerts[id].triggered_at = NULL
              /\ ~alerts[id].notification_sent

\* a pass has set the three fields of one alert while another alert has
\* them unset
C5_Witness ==
    /\ Pass
    /\ \E id \in DOMAIN alerts :
          /\ ~last.before[id].triggered
          /\ alerts[id].triggered /\ alerts[id].notification_sent
          /\ alerts[id].triggered_at = Now
    /\ \E id \in DOMAIN alerts :
          /\ ~alerts[id].triggered /\ ~alerts[id].notification_sent
          /\ alerts[id].triggered_at = NULL

\* C6: when a pass ends in an error, no alert's triggered, triggered_at or
\* notification_sent differs from its value before the pass
C6_NoPartialTriggering ==
    (Pass /\ last.result = "DatabaseError") =>
        \A id \in DOMAIN last.before :
            /\ id \in DOMAIN alerts
            /\ alerts[id].triggered = last.before[id].triggered
            /\ alerts[id].triggered_at = last.before[id].triggered_at
            /\ alerts[id].notification_sent = last.before[id].notification_sent

\* C7: a completed pass triggers an eligible ABOVE alert whose asset has a
\* latest price p iff p >= threshold, and a BELOW alert iff p <= threshold
C7_InclusiveThresholds ==
    Completed =>
        \A id \in DOMAIN last.before :
            (Eligible(id) /\ HasObs(last.before[id].asset_id)) =>
                LET row == last.before[id]
                    p == LatestClose(row.asset_id)
                IN  /\ row.alert_type = "above" =>
                        (alerts[id].triggered <=> p >= row.threshold_value)
                    /\ row.alert_type = "below" =>
                        (alerts[id].triggered <=> p <= row.threshold_value)

\* a completed pass triggered an ABOVE and a BELOW alert at a latest price
\* equal to their threshold
C7_Witness ==
    /\ Completed
    /\ \E id \in DOMAIN alerts :
          /\ Eligible(id) /\ alerts[id].triggered /\ alerts[id].alert_type = "above"
          /\ HasObs(alerts[id].asset_id)
          /\ LatestClose(alerts[id].asset_id) = alerts[id].threshold_value
    /\ \E id \in DOMAIN alerts :
          /\ Eligible(id) /\ alerts[id].triggered /\ alerts[id].alert_type = "below"
          /\ HasObs(alerts[id].asset_id)
          /\ LatestClose(alerts[id].asset_id) = alerts[id].threshold_value

\* C8: a completed pass triggers an eligible CHANGE_PERCENT alert iff its
\* asset has an observation before the latest one, the most recent such has
\* price prev > 0, and |cur - prev| * 100 >= threshold * prev; 100 -> 110
\* triggers at threshold 5 and 100 -> 103 does not
C8_ChangePercent ==
    /\ is_triggered(new_alert(1, "change_percent", 5), 110, 100)
    /\ ~is_triggered(new_alert(1, "change_percent", 5), 103, 100)
    /\ Completed =>
        \A id \in DOMAIN last.before :
            (Eligible(id) /\ last.before[id].alert_type = "change_percent") =>
                LET a == last.before[id].asset_id
                IN  alerts[id].triggered <=>
                        /\ HasPrev(a)
                        /\ PrevClose(a) > 0
                        /\ Abs(LatestClose(a) - PrevClose(a)) * 100
                              >= last.before[id].threshold_value * PrevClose(a)

\* a completed pass triggered a CHANGE_PERCENT alert on a fall of the price
C8_Witness ==
    /\ Completed
    /\ \E id \in DOMAIN alerts :
          /\ Eligible(id) /\ alerts[id].triggered
          /\ alerts[id].alert_type = "change_percent"
          /\ HasPrev(alerts[id].asset_id)
          /\ LatestClose(alerts[id].asset_id) < PrevClose(alerts[id].asset_id)

\* a completed pass left a CHANGE_PERCENT alert untriggered whose asset's
\* previous price is 0
C8_ZeroPrevReached ==
    /\ Completed
    /\ \E id \in DOMAIN alerts :
          /\ Eligible(id) /\ ~alerts[id].triggered
          /\ alerts[id].alert_type = "change_percent"
          /\ HasPrev(alerts[id].asset_id)
          /\ PrevClose(alerts[id].asset_id) = 0

\* C9: a pass leaves an eligible alert whose asset has no price observation
\* as it was (so still active and untriggered), out of the returned list and
\* out of the callback's argument
C9_NoPriceSkipped ==
    Pass =>
        \A id \in DOMAIN last.before :
            (Eligible(id) /\ ~HasObs(last.before[id].asset_id)) =>
                /\ id \in DOMAIN alerts
                /\ alerts[id] = last.before[id]
                /\ alerts[id].active /\ ~alerts[id].triggered
                /\ id \notin ListIds(last.returned)
                /\ id \notin NotifiedIds

\* a completed pass triggered an alert of one asset and skipped a BELOW
\* alert of an asset without observations
C9_Witness ==
    /\ Completed
    /\ last.returned # <<>>
    /\ \E id \in DOMAIN alerts :
          /\ Eligible(id)
          /\ alerts[id].alert_type = "below"
          /\ ~HasObs(alerts[id].asset_id)

\* the net holdings of an asset: buy quantities minus sell quantities over
\* all its transactions
NetHoldings(a) ==
    SumSigned(ledger, {id \in DOMAIN ledger : ledger[id].asset_id = a})

\* C10: add_transaction of a SELL of more than the asset's net holdings (or
\* of an asset with none) fails with a validation error and leaves the ledger
\* unchanged; a SELL of exactly the net holdings is accepted
C10_SellValidation ==
    [][\A inp \in TxInputs :
          (/\ inp.transaction_type = "sell"
           /\ inp.asset_id \in AssetIds
           /\ inp.quantity > 0
           /\ AddTransactionWith(inp)) =>
              /\ inp.quantity > NetHoldings(inp.asset_id) =>
                    (ledger' = ledger /\ last'.result = "ValidationError")
              /\ inp.quantity = NetHoldings(inp.asset_id) =>
                    (ledger' = ledger @@ (nextTxId :> inp) /\ last'.result = "ok")]_vars

\* the signed quantity sum of one (asset, currency) group of the ledger
GroupSum(a, c) ==
    SumSigned(ledger, {id \in DOMAIN ledger :
                          ledger[id].asset_id = a /\ ledger[id].currency = c})

\* the (asset, currency) pairs that have transactions in the ledger
LedgerGroups ==
    {g \in AssetIds \X Currencies :
        \E id \in DOMAIN ledger : ledger[id].asset_id = g[1] /\ ledger[id].currency = g[2]}

\* C11: in a ledger built by accepted add_transaction calls alone, the signed
\* quantity sum of an asset is >= 0 right after a SELL of it was recorded
C11_SellKeepsHoldingsNonNegative ==
    (/\ last.op = "add_transaction"
     /\ last.result = "ok"
     /\ ledger[nextTxId - 1].transaction_type = "sell") =>
        NetHoldings(ledger[nextTxId - 1].asset_id) >= 0

\* C12: every position get_portfolio_positions returns has quantity > 0, and
\* no (asset, currency) group whose signed quantity sum is <= 0 is in the list
C12_PositionsPositive ==
    last.op = "get_portfolio_positions" =>
        /\ \A i \in 1..Len(last.returned) : last.returned[i].quantity > 0
        /\ \A g \in AssetIds \X Currencies :
              GroupSum(g[1], g[2]) <= 0 =>
                  ~\E i \in 1..Len(last.returned) :
                      /\ last.returned[i].asset_id = g[1]
                      /\ last.returned[i].currency = g[2]

\* get_portfolio_positions returned a position while a group with
\* transactions nets to 0 and is left out
C12_Witness ==
    /\ last.op = "get_portfolio_positions"
    /\ last.returned # <<>>
    /\ \E g \in LedgerGroups : GroupSum(g[1], g[2]) = 0

\* C13: a get_portfolio_positions call leaves the ledger, the prices and the
\* alerts as they were, and a call that follows another one directly returns
\* the list the first one returned
C13_PositionsPure ==
    [][last'.op = "get_portfolio_positions" =>
          /\ ledger' = ledger
          /\ price' = price
          /\ alerts' = alerts
          /\ last.op = "get_portfolio_positions" => last'.returned = last.returned]_vars

\* get_portfolio_positions returned two positions from a ledger that also
\* holds a group netting to 0
C13_Witness ==
    /\ last.op = "get_portfolio_positions"
    /\ Len(last.returned) = 2
    /\ \E g \in LedgerGroups : GroupSum(g[1], g[2]) <= 0

\* C14: the price table holds one close per (asset_id, price_date); after
\* save_price the key saved holds the close saved, as a single row, and every
\* other key holds what it held before
C14_PriceUpsert ==
    /\ \A k \in AssetIds \X Dates : price[k] = NoPrice \/ price[k] >= 0
    /\ hist.op = "save_price" =>
          LET k == <<hist.arg[1], hist.arg[2]>>
          IN  /\ price[k] = hist.arg[3]
              /\ \A j \in AssetIds \X Dates : j # k => price[j] = hist.before.price[j]
              /\ Rows(price) = Rows(hist.before.price) \cup {k}

\* save_price replaced the close of an existing observation by a different
\* one while another observation was stored
C14_Witness ==
    /\ hist.op = "save_price"
    /\ hist.before.price[hist.arg[1], hist.arg[2]] \notin {NoPrice, hist.arg[3]}
    /\ price[hist.arg[1], hist.arg[2]] = hist.arg[3]
    /\ Cardinality(Rows(price)) = 2

\* the tables other than the orphaned rows are as the latest operation found them
TablesAsBefore ==
    /\ price = hist.before.price
    /\ alerts = hist.before.alerts
    /\ ledger = hist.before.ledger
    /\ dividend = hist.before.dividend

\* C15: a use of the transaction scope whose body completes leaves the
\* body's changes in the store; one whose body raises (a failing statement,
\* or the not-found error the body raises itself) leaves the store as it
\* was at BEGIN and raises a DatabaseError
C15_TransactionAtomic ==
    /\ hist.op = "cleanup_orphaned_data" =>
          IF hist.arg # 0
          THEN Store = hist.before /\ last.result = "DatabaseError"
          ELSE orphans = NoOrphans /\ TablesAsBefore /\ last.result = "ok"
    /\ hist.op = "delete_price" =>
          IF \/ hist.arg[1] \notin AssetIds
             \/ hist.before.price[hist.arg[1], hist.arg[2]] = NoPrice
          THEN Store = hist.before /\ last.result = "DatabaseError"
          ELSE /\ price = [hist.before.price EXCEPT ![hist.arg[1], hist.arg[2]] = NoPrice]
               /\ last.result = "ok"
    /\ hist.op = "delete_transaction" =>
          IF hist.arg \notin DOMAIN hist.before.ledger
          THEN Store = hist.before /\ last.result = "DatabaseError"
          ELSE /\ DOMAIN ledger = DOMAIN hist.before.ledger \ {hist.arg}
               /\ last.result = "ok"

\* cleanup_orphaned_data failed at its third DELETE, after the first had
\* removed rows, and the store is as it was
C15_Witness ==
    /\ hist.op = "cleanup_orphaned_data"
    /\ hist.arg = 3
    /\ hist.before.orphans["portfolio_transaction"] > 0
    /\ orphans = hist.before.orphans
    /\ last.result = "DatabaseError"

\* C17: when cleanup_orphaned_data fails none of the four tables has lost a
\* row; when it succeeds none of the four tables holds an orphaned row, the
\* rows that name an existing asset are all kept, and the counts returned are
\* the numbers of orphaned rows there were
C17_CleanupAllOrNothing ==
    hist.op = "cleanup_orphaned_data" =>
        /\ TablesAsBefore
        /\ last.result # "ok" => orphans = hist.before.orphans
        /\ last.result = "ok" =>
              /\ \A t \in DOMAIN orphans : orphans[t] = 0
              /\ \A i \in 1..Len(OrphanTables) :
                    last.returned[i] = hist.before.orphans[OrphanTables[i]]

\* cleanup_orphaned_data succeeded on a store with orphaned rows in all four tables
C17_Witness ==
    /\ hist.op = "cleanup_orphaned_data"
    /\ last.result = "ok"
    /\ \A t \in DOMAIN orphans : hist.before.orphans[t] > 0 /\ orphans[t] = 0

\* the latest operation named an identifier that did not exist
UnknownIdentifier ==
    \/ hist.op = "delete_transaction" /\ hist.arg \notin DOMAIN hist.before.ledger
    \/ hist.op \in {"delete_alert", "deactivate_alert"}
          /\ hist.arg \notin DOMAIN hist.before.alerts
    \/ hist.op = "delete_price"
          /\ \/ hist.arg[1] \notin AssetIds
             \/ hist.before.price[hist.arg[1], hist.arg[2]] = NoPrice

\* C18: an operation on an identifier that does not exist ends in an error
\* that differs from the one a failing statement inside the transaction
\* scope gives, and leaves the store unchanged
C18_NotFoundDistinct ==
    UnknownIdentifier =>
        /\ last.result # "ok"
        /\ <<last.result, last.message>> # <<"DatabaseError", "Transaktion fehlgeschlagen">>
        /\ Store = hist.before

\* C19: deactivate_alert and delete_alert succeed on an existing alert in
\* every state of it; deactivate_alert changes the active flag of that alert
\* and nothing else; no operation makes an inactive alert active
C19_UserActionsAlways ==
    /\ (hist.op = "deactivate_alert" /\ hist.arg \in DOMAIN hist.before.alerts) =>
          /\ last.result = "ok"
          /\ alerts = [hist.before.alerts EXCEPT ![hist.arg].active = FALSE]
    /\ (hist.op = "delete_alert" /\ hist.arg \in DOMAIN hist.before.alerts) =>
          /\ last.result = "ok"
          /\ alerts = [k \in DOMAIN hist.before.alerts \ {hist.arg} |-> hist.before.alerts[k]]
    /\ hist.op # "connect" =>
          \A id \in DOMAIN alerts \cap DOMAIN hist.before.alerts :
              ~hist.before.alerts[id].active => ~alerts[id].active

\* deactivate_alert was called on an alert that had triggered and was already
\* inactive, and the alert is inactive and still triggered
C19_Witness ==
    /\ hist.op = "deactivate_alert"
    /\ hist.arg \in DOMAIN hist.before.alerts
    /\ hist.before.alerts[hist.arg].triggered
    /\ ~hist.before.alerts[hist.arg].active
    /\ ~alerts[hist.arg].active
    /\ alerts[hist.arg].triggered

\* the invalid arguments: a number string that is no positive number, a
\* currency that is not three letters, a date in the future or before 1970
BadNumber(str) == str \notin {"1", "2", "100"}
BadCurrency(c) == Len(c) # 3 \/ c = "123"
BadDate(d) == d > MaxDate \/ d < 1

\* the call raised a ValidationError and no table changed
Refused ==
    /\ last'.result = "ValidationError"
    /\ price' = price /\ alerts' = alerts /\ ledger' = ledger
    /\ dividend' = dividend /\ orphans' = orphans

\* C16: add_transaction, save_price, create_alert and add_dividend called
\* with an invalid argument raise a ValidationError and leave every table as
\* it was
C16_ValidationPrecedesWrites ==
    [][/\ \A raw \in RawTxInputs :
            (/\ \/ raw.asset_id <= 0
                \/ BadNumber(raw.quantity_str) \/ BadNumber(raw.price_str)
                \/ BadCurrency(raw.currency) \/ BadDate(raw.transaction_date)
             /\ AddTransactionRawWith(raw)) => Refused
       /\ \A raw \in RawPriceInputs :
            (/\ \/ raw.asset_id <= 0
                \/ BadNumber(raw.close_str)
                \/ BadCurrency(raw.currency) \/ BadDate(raw.price_date)
             /\ SavePriceRawWith(raw)) => Refused
       /\ \A raw \in RawAlertInputs :
            (/\ \/ raw.asset_id <= 0
                \/ raw.threshold_value.kind # "finite"
                \/ raw.threshold_value.value <= 0
                \/ BadCurrency(raw.currency)
             /\ CreateAlertRawWith(raw)) => Refused
       /\ \A raw \in RawDividendInputs :
            (/\ \/ raw.asset_id <= 0
                \/ BadNumber(raw.amount_str)
                \/ BadCurrency(raw.currency) \/ BadDate(raw.payment_date)
                \/ raw.amount_str = "2" /\ raw.tax_withheld_str = "100"
             /\ AddDividendWith(raw)) => Refused]_vars

\* the (asset, currency) groups that are positions, and the value of one:
\* its quantity times the latest close of the asset, 0 without an observation
PositionGroups == {g \in LedgerGroups : GroupSum(g[1], g[2]) > 0}
GroupValue(g) ==
    GroupSum(g[1], g[2]) * (IF HasObs(g[1]) THEN LatestClose(g[1]) ELSE 0)

RECURSIVE SumValues(_)
SumValues(G) ==
    IF G = {} THEN 0
    ELSE LET g == CHOOSE x \in G : TRUE
         IN  GroupValue(g) + SumValues(G \ {g})

\* the position that comes first: lowest symbol, then lowest currency code
ComesFirst(g, h) == g[1] < h[1] \/ (g[1] = h[1] /\ (g[2] = h[2] \/ g[2] = "EUR"))
FirstGroup == CHOOSE g \in PositionGroups : \A h \in PositionGroups : ComesFirst(g, h)

\* C20: get_total_portfolio_value returns the currency of the first summary
\* with the sum of current_value over the summaries in that currency, and 0
\* in the default currency when there is no position
C20_TotalInFirstCurrency ==
    last.op = "get_total_portfolio_value" =>
        IF PositionGroups = {}
        THEN last.returned[1] = [total |-> 0, currency |-> "EUR"]
        ELSE /\ last.returned[1].currency = FirstGroup[2]
             /\ last.returned[1].total =
                    SumValues({g \in PositionGroups : g[2] = FirstGroup[2]})

\* the total was taken over two positions in the first currency while a
\* position in the other currency has a value that is left out
C20_Witness ==
    /\ last.op = "get_total_portfolio_value"
    /\ last.returned[1].total > 0
    /\ \E g \in PositionGroups : g[2] # last.returned[1].currency /\ GroupValue(g) > 0
    /\ \E g, h \in PositionGroups :
          /\ g # h
          /\ g[2] = last.returned[1].currency /\ h[2] = last.returned[1].currency
          /\ GroupValue(g) > 0 /\ GroupValue(h) > 0

\* the observation dates of an asset in a price table, and the close at the
\* greatest of them
DatesIn(p, a) == {d \in Dates : p[a, d] # NoPrice}
CloseAtMaxDate(p, a) ==
    p[a, CHOOSE d \in DatesIn(p, a) : \A e \in DatesIn(p, a) : e <= d]

\* C21: the price a completed check_alerts pass reports for an alert and the
\* current_price of a portfolio summary are the close of the asset's
\* observation with the greatest price_date; save_price on an earlier date
\* leaves the latest price as it was, and delete_price of the latest
\* observation makes the close of the greatest remaining date the latest
C21_LatestByDate ==
    /\ Completed =>
          \A i \in 1..Len(last.returned) :
              last.returned[i].current_price =
                  CloseAtMaxDate(price, alerts[last.returned[i].id].asset_id)
    /\ last.op = "get_portfolio_summary" =>
          \A i \in 1..Len(last.returned) :
              DatesIn(price, last.returned[i].asset_id) # {} =>
                  last.returned[i].current_price =
                      CloseAtMaxDate(price, last.returned[i].asset_id)
    /\ (/\ hist.op = "save_price"
        /\ \E d \in DatesIn(hist.before.price, hist.arg[1]) : hist.arg[2] < d) =>
          latest_price(price, hist.arg[1]) = CloseAtMaxDate(hist.before.price, hist.arg[1])
    /\ (/\ hist.op = "delete_price" /\ last.result = "ok"
        /\ \A d \in DatesIn(hist.before.price, hist.arg[1]) : d <= hist.arg[2]
        /\ DatesIn(price, hist.arg[1]) # {}) =>
          latest_price(price, hist.arg[1]) =
              CloseAtMaxDate([hist.before.price EXCEPT ![hist.arg[1], hist.arg[2]] = NoPrice],
                             hist.arg[1])

\* a completed pass reported, for an asset with an earlier observation of a
\* different close, the close of the later observation
C21_Witness ==
    /\ Completed
    /\ \E i \in 1..Len(last.returned) :
          LET a == alerts[last.returned[i].id].asset_id
          IN  /\ Cardinality(DatesIn(price, a)) = 2
              /\ price[a, 1] # price[a, 2]
              /\ last.returned[i].current_price = price[a, 2]

\* the signed sum of quantity * price of one (asset, currency) group
GroupCost(a, c) ==
    SumCost(ledger, {id \in DOMAIN ledger :
                        ledger[id].asset_id = a /\ ledger[id].currency = c})

\* C22: every summary get_portfolio_summary returns has total_cost equal to
\* the signed sum of quantity * price over the transactions of its group,
\* current_value equal to quantity times the latest price (0 without an
\* observation) and profit_loss equal to current_value - total_cost
C22_Valuation ==
    last.op = "get_portfolio_summary" =>
        \A i \in 1..Len(last.returned) :
            LET row == last.returned[i]
                cost == GroupCost(row.asset_id, row.currency)
                value == GroupSum(row.asset_id, row.currency)
                            * (IF HasObs(row.asset_id) THEN LatestClose(row.asset_id) ELSE 0)
            IN  /\ row.total_cost.whole = cost /\ row.total_cost.frac = 0
                /\ row.current_value = value
                /\ row.profit_loss.whole = value - cost /\ row.profit_loss.frac = 0

\* C23: delete_transaction removes an existing transaction whatever the
\* holdings; when it leaves the signed quantity sum of an asset negative, the
\* asset is in no position get_portfolio_positions returns and add_transaction
\* rejects every SELL of it
C23_DeletionNotRevalidated ==
    (last.op = "delete_transaction" /\ last.result = "ok") =>
        \A a \in AssetIds :
            NetHoldings(a) < 0 =>
                /\ \A i \in 1..Len(position_list(ledger)) :
                      position_list(ledger)[i].asset_id # a
                /\ \A quantity \in 1..MaxQty :
                      \A current_quantity \in get_asset_quantity(ledger, a) :
                          validate_transaction("sell", quantity, current_quantity) # ""

\* C24: every alert a pass run with a registered callback stored as notified
\* (notification_sent set by this pass) was in the list the pass handed to
\* the callback
C24_NoLostNotification ==
    (Pass /\ callback) =>
        \A id \in DOMAIN last.before \cap DOMAIN alerts :
            (~last.before[id].notification_sent /\ alerts[id].notification_sent) =>
                id \in NotifiedIds

\* C25: right after a check_alerts pass that returned, no alert that is
\* active and untriggered has a trigger condition that holds on the price
\* observations of its asset
C25_PassPostcondition ==
    Completed =>
        \A id \in DOMAIN alerts :
            (alerts[id].active /\ ~alerts[id].triggered) => ~Satisfied(alerts[id])

\* a completed pass triggered one alert and left another one, whose asset has
\* observations and whose condition does not hold, active and untriggered
C25_Witness ==
    /\ Completed
    /\ \E id \in DOMAIN alerts : Eligible(id) /\ alerts[id].triggered
    /\ \E id \in DOMAIN alerts :
          /\ Eligible(id) /\ alerts[id].active /\ ~alerts[id].triggered
          /\ HasObs(alerts[id].asset_id)
          /\ ~Satisfied(alerts[id])

\* C26: the list a check_alerts pass returns holds, each once, exactly the
\* alerts whose stored triggered flag the pass changed from false to true,
\* and each entry carries the latest price of the alert's asset
C26_ReturnedIsTriggered ==
    Completed =>
        /\ ListIds(last.returned) =
              {id \in DOMAIN last.before \cap DOMAIN alerts :
                  ~last.before[id].triggered /\ alerts[id].triggered}
        /\ Len(last.returned) = Cardinality(ListIds(last.returned))
        /\ \A i \in 1..Len(last.returned) :
              LET a == last.before[last.returned[i].id].asset_id
              IN  HasObs(a) /\ last.returned[i].current_price = LatestClose(a)

\* a completed pass returned one alert, with the later of two observations
\* of its asset, and left out another selected alert whose asset has a price
C26_Witness ==
    /\ Completed
    /\ Len(last.returned) = 1
    /\ HasPrev(alerts[last.returned[1].id].asset_id)
    /\ last.returned[1].current_price # PrevClose(alerts[last.returned[1].id].asset_id)
    /\ \E id \in DOMAIN alerts :
          /\ Eligible(id) /\ ~alerts[id].triggered
          /\ HasObs(alerts[id].asset_id)

\* the columns of a price_alert row that check_alerts does not write
Unwritten(row) ==
    [row EXCEPT !.triggered = FALSE, !.triggered_at = NULL,
                !.notification_sent = FALSE]

\* C27: a check_alerts pass, whether it returns or raises, inserts and
\* deletes no alert, leaves every alert's active, alert_type, threshold_value
\* and asset_id as they were, and leaves the price table, the ledger and the
\* dividend table unchanged
C27_CheckAlertsFrame ==
    [][last'.op = "check_alerts" =>
          /\ price' = price
          /\ ledger' = ledger
          /\ dividend' = dividend
          /\ orphans' = orphans
          /\ DOMAIN alerts' = DOMAIN alerts
          /\ \A id \in DOMAIN alerts : Unwritten(alerts'[id]) = Unwritten(alerts[id])]_vars

\* a completed pass set the flag of an alert while another alert was
\* inactive, on a database that holds prices, a ledger and a dividend
C27_Witness ==
    /\ Completed
    /\ last.returned # <<>>
    /\ alerts # last.before
    /\ \E id \in DOMAIN alerts : ~alerts[id].active
    /\ ledger # <<>> /\ dividend # {}
    /\ Cardinality(Rows(price)) = MaxPriceRows

\* C28: every position that get_portfolio_positions emits for a ledger built
\* by accepted add_transaction calls has an average_buy_price above zero
C28_CostBasisPositive ==
    last.op = "get_portfolio_positions" =>
        \A i \in 1..Len(last.returned) :
            /\ last.returned[i].average_buy_price.num > 0
            /\ last.returned[i].average_buy_price.den > 0

\* the transactions of asset a dated d or earlier
IdsUpTo(L, a, d) ==
    {id \in DOMAIN L : L[id].asset_id = a /\ L[id].transaction_date <= d}

\* C29: in a ledger built by accepted add_transaction calls without
\* deletions, the signed quantity sum of an asset's transactions up to any
\* date is never negative
C29_ChronologicalConsistency ==
    \A a \in AssetIds, d \in Dates : SumSigned(ledger, IdsUpTo(ledger, a, d)) >= 0

\* the latest call was a cleanup_orphaned_data that returned
CleanedUp == last.op = "cleanup_orphaned_data" /\ last.result = "ok"

\* C30: directly after a cleanup_orphaned_data that returned,
\* check_foreign_keys returns an empty list and a further
\* cleanup_orphaned_data that returns reports zero deleted rows for every table
C30_CleanupEstablishesConsistency ==
    [][CleanedUp =>
          /\ last'.op = "check_foreign_keys" => last'.returned = <<>>
          /\ (last'.op = "cleanup_orphaned_data" /\ last'.result = "ok") =>
                \A i \in 1..Len(last'.returned) : last'.returned[i] = 0]_vars

\* a cleanup_orphaned_data that returned has deleted rows of all four
\* tables, which check_foreign_keys reported before it
C30_Witness ==
    /\ CleanedUp
    /\ \A i \in 1..Len(OrphanTables) : last.returned[i] = MaxOrphans
    /\ Len(check_foreign_keys(hist.before)) = Len(OrphanTables) * MaxOrphans
    /\ check_foreign_keys(Store) = <<>>

====
